---- MODULE Spec2Model ----
(***************************************************************************)
(* Flame & Wrap Co. API: the request handlers of main.py over the record   *)
(* shapes of schemas.py and the optional document store ("database"        *)
(* module, not part of the repository).                                    *)
(*                                                                         *)
(* Numbers are fixed point: prices are in cents, every other number a      *)
(* document holds is in tenths (a stored 45 is 4.5, a stored 50 is 5), so  *)
(* that an int field can be told from a fractional stored value. Model     *)
(* instances hold int fields as plain integers.  None is NoneVal.          *)
(* Non-ASCII characters of the source's strings are left out.              *)
(***************************************************************************)
EXTENDS Integers, Sequences, FiniteSets, TLC

\* Number of requests that may be in flight at once (worker threads).
NumReq == 2
\* Cap on the number of documents of the "order" collection.
MaxOrders == 2

\* collections[:10] and str(e)[:50] in test_database
MaxCollections == 10

VARIABLES
    dbmod,   \* what "from database import ..." gives: missing | broken | none | present
    store,   \* collection name -> sequence of documents (as find({}, {"_id": 0}) shows them)
    store0,  \* the store at start-up (never changes)
    pc,      \* per request slot: idle | menu_seed | review_seed
    docs,    \* per request slot: the handler's local `docs`
    last     \* the response most recently sent

vars == <<dbmod, store, store0, pc, docs, last>>

Req == 1..NumReq
NoneVal == "None"
Collections == {"menuitem", "review", "order"}
Outcome == {"ok", "raise"}

Field(doc, f, default) == IF f \in DOMAIN doc THEN doc[f] ELSE default

SeqAll(s, P(_)) == \A i \in DOMAIN s : P(s[i])
SeqMap(s, F(_)) == [i \in DOMAIN s |-> F(s[i])]

IsPrefix(s, t) == Len(s) <= Len(t) /\ SubSeq(t, 1, Len(s)) = s

(***************************************************************************)
(* schemas.py                                                              *)
(***************************************************************************)

MenuItemValid_noprice(doc) ==
    /\ {"name", "price", "category"} \subseteq DOMAIN doc
    /\ ("rating" \in DOMAIN doc => doc.rating >= 0 /\ doc.rating <= 50)
    /\ ("ratings_count" \in DOMAIN doc =>
            doc.ratings_count % 10 = 0 /\ doc.ratings_count >= 0)

\* MenuItem(**doc) does not raise
MenuItemValid(doc) ==
    /\ {"name", "price", "category"} \subseteq DOMAIN doc
    /\ doc.price >= 0
    /\ ("rating" \in DOMAIN doc => doc.rating >= 0 /\ doc.rating <= 50)
    /\ ("ratings_count" \in DOMAIN doc =>
            doc.ratings_count % 10 = 0 /\ doc.ratings_count >= 0)

\* MenuItem(**doc): declared fields only, defaults filled in, ints as ints
MenuItem(doc) ==
    [name          |-> doc.name,
     description   |-> Field(doc, "description", NoneVal),
     price         |-> doc.price,
     category      |-> doc.category,
     image         |-> Field(doc, "image", NoneVal),
     media         |-> Field(doc, "media", NoneVal),
     rating        |-> Field(doc, "rating", 48),
     ratings_count |-> Field(doc, "ratings_count", 0) \div 10]

\* MenuItem.model_dump()
MenuItem_model_dump(m) ==
    [name          |-> m.name,
     description   |-> m.description,
     price         |-> m.price,
     category      |-> m.category,
     image         |-> m.image,
     media         |-> m.media,
     rating        |-> m.rating,
     ratings_count |-> m.ratings_count * 10]

\* Review(**doc) does not raise
ReviewValid(doc) ==
    /\ {"name", "rating", "quote"} \subseteq DOMAIN doc
    /\ doc.rating % 10 = 0
    /\ doc.rating \div 10 >= 1
    /\ doc.rating \div 10 <= 5

\* Review(**doc)
Review(doc) ==
    [name     |-> doc.name,
     avatar   |-> Field(doc, "avatar", NoneVal),
     rating   |-> doc.rating \div 10,
     quote    |-> doc.quote,
     platform |-> Field(doc, "platform", NoneVal)]

\* Review.model_dump()
Review_model_dump(rv) ==
    [name     |-> rv.name,
     avatar   |-> rv.avatar,
     rating   |-> rv.rating * 10,
     quote    |-> rv.quote,
     platform |-> rv.platform]

OrderItemValid(it) == {"name", "price"} \subseteq DOMAIN it

OrderItem(it) ==
    [item_id  |-> Field(it, "item_id", NoneVal),
     name     |-> it.name,
     price    |-> it.price,
     quantity |-> Field(it, "quantity", 1),
     options  |-> Field(it, "options", NoneVal)]

OrderValid_crosscheck(body) ==
    /\ {"items", "subtotal", "tax", "total"} \subseteq DOMAIN body
    /\ SeqAll(body.items, OrderItemValid)
    /\ body.total = body.subtotal + body.tax

\* the request body passes Order validation
OrderValid(body) ==
    /\ {"items", "subtotal", "tax", "total"} \subseteq DOMAIN body
    /\ SeqAll(body.items, OrderItemValid)

Order(body) ==
    [items          |-> SeqMap(body.items, OrderItem),
     subtotal       |-> body.subtotal,
     tax            |-> body.tax,
     total          |-> body.total,
     customer_name  |-> Field(body, "customer_name", NoneVal),
     customer_phone |-> Field(body, "customer_phone", NoneVal),
     notes          |-> Field(body, "notes", NoneVal)]

(***************************************************************************)
(* main.py: the hardcoded defaults                                         *)
(***************************************************************************)

DefaultMenu ==
    << [name |-> "City Classic Shawarma",
        description |-> "Fire-grilled chicken, garlic sauce, pickles, city herbs.",
        price |-> 1195, category |-> "wraps",
        image |-> "https://images.unsplash.com/photo-1604908554039-955f8a19a34b?q=80&w=1200&auto=format&fit=crop",
        media |-> "https://cdn.coverr.co/videos/coverr-grilling-meat-2869/1080p.mp4",
        rating |-> 49, ratings_count |-> 542],
       [name |-> "Ember Beef Skewers",
        description |-> "Charred edges, tender center, pomegranate glaze.",
        price |-> 1450, category |-> "skewers",
        image |-> "https://images.unsplash.com/photo-1616712134411-6a2dd1d8ef2e?q=80&w=1200&auto=format&fit=crop",
        media |-> "https://cdn.coverr.co/videos/coverr-fire-grilling-4037/1080p.mp4",
        rating |-> 48, ratings_count |-> 311],
       [name |-> "Loaded City Fries",
        description |-> "Garlic drizzle, chili crunch, parsley rain.",
        price |-> 875, category |-> "fries",
        image |-> "https://images.unsplash.com/photo-1546549039-49d3c2d6d3d2?q=80&w=1200&auto=format&fit=crop",
        media |-> "https://cdn.coverr.co/videos/coverr-close-up-of-french-fries-1550/1080p.mp4",
        rating |-> 47, ratings_count |-> 228] >>

DefaultReviews ==
    << [name |-> "Layla", avatar |-> NoneVal, rating |-> 5,
        quote |-> "The garlic drizzle is unreal. City vibes in a wrap!",
        platform |-> "Google"],
       [name |-> "Marco", avatar |-> NoneVal, rating |-> 5,
        quote |-> "Beef skewers with that ember glaze... perfection.",
        platform |-> "Yelp"],
       [name |-> "Anaya", avatar |-> NoneVal, rating |-> 4,
        quote |-> "Loaded fries that belong in a music video.",
        platform |-> "Google"] >>

\* Order.model_dump()
Order_model_dump(o) ==
    [items          |-> SeqMap(o.items,
                          LAMBDA it : [it EXCEPT !.quantity = it.quantity * 10]),
     subtotal       |-> o.subtotal,
     tax            |-> o.tax,
     total          |-> o.total,
     customer_name  |-> o.customer_name,
     customer_phone |-> o.customer_phone,
     notes          |-> o.notes]

(***************************************************************************)
(* The persistence collaborator (module "database"): find, insert_many,    *)
(* create_document, list_collection_names.  A call either returns or       *)
(* raises; a call that raises leaves the store as it was.                  *)
(***************************************************************************)

\* db[c].find({}, {"_id": 0})
find(c) == store[c]

\* db[c].insert_many(ds)
insert_many(c, ds) == [store EXCEPT ![c] = @ \o ds]

\* create_document(c, record): the store after the insert
create_document(c, record) == [store EXCEPT ![c] = Append(@, Order_model_dump(record))]

\* the identifier create_document generates, as a string or as the store's
\* native identifier type
NoId == [type |-> "none", n |-> 0]
inserted_id(c, type) == [type |-> type, n |-> Len(store[c]) + 1]

CollectionOrder == <<"menuitem", "order", "review">>
NonEmptyCollection(c) == store[c] # <<>>

\* db.list_collection_names()
list_collection_names == SelectSeq(CollectionOrder, NonEmptyCollection)

(***************************************************************************)
(* Inputs: documents a store may hold at start-up, request bodies          *)
(***************************************************************************)

HouseWrap ==
    [name |-> "House Wrap", description |-> NoneVal, price |-> 0,
     category |-> "wraps", image |-> NoneVal, media |-> NoneVal,
     rating |-> 50, ratings_count |-> 0, sku |-> "hw-1"]
SparseItem == [name |-> "Mint Tea", price |-> 350, category |-> "drinks"]
NegativePrice == [HouseWrap EXCEPT !.price = -100]
RatingTooHigh == [HouseWrap EXCEPT !.rating = 51]
NegativeCount == [HouseWrap EXCEPT !.ratings_count = -10]
FractionalCount == [HouseWrap EXCEPT !.ratings_count = 5]
NoCategory == [name |-> "Mystery", price |-> 100]

StoredReview ==
    [name |-> "Noor", rating |-> 30, quote |-> "Solid.", source |-> "import"]
RatingSix == [StoredReview EXCEPT !.rating = 60]
RatingZero == [StoredReview EXCEPT !.rating = 0]
RatingFractional == [StoredReview EXCEPT !.rating = 45]
NoQuote == [name |-> "Noor", rating |-> 30]

EmptyStore == [c \in Collections |-> <<>>]

StoreWith(m, rv) == [menuitem |-> m, review |-> rv, order |-> <<>>]

\* the contents a store may have when the service starts
InitialStores ==
    { EmptyStore,
      StoreWith(<<HouseWrap, SparseItem>>, <<StoredReview>>),
      StoreWith(<<HouseWrap, NegativePrice>>, <<StoredReview, RatingSix>>),
      StoreWith(<<RatingTooHigh>>, <<RatingZero, StoredReview>>),
      StoreWith(<<NegativeCount, HouseWrap>>, <<RatingFractional>>),
      StoreWith(<<SparseItem, FractionalCount>>, <<NoQuote>>),
      StoreWith(<<NoCategory>>, <<>>),
      StoreWith(<<>>, <<StoredReview>>) }

GoodOrder ==
    [items |-> << [name |-> "City Classic Shawarma", price |-> 1195] >>,
     subtotal |-> 1195, tax |-> 100, total |-> 1295]
\* total is not subtotal + tax
SkewedOrder == [GoodOrder EXCEPT !.total = 999]
\* no total: fails Order validation
NoTotalOrder ==
    [items |-> << [name |-> "City Classic Shawarma", price |-> 1195] >>,
     subtotal |-> 1195, tax |-> 100]
\* an item without a price: fails Order validation
NoPriceOrder == [GoodOrder EXCEPT !.items = << [name |-> "Loaded City Fries"] >>]

OrderBodies == {GoodOrder, SkewedOrder, NoTotalOrder, NoPriceOrder}

(***************************************************************************)
(* main.py: the handlers                                                   *)
(***************************************************************************)

Idle == \A q \in Req : pc[q] = "idle"

Init ==
    /\ dbmod \in {"missing", "broken", "none", "present"}
    /\ store \in (IF dbmod = "present" THEN InitialStores ELSE {EmptyStore})
    /\ store0 = store
    /\ pc = [r \in Req |-> "idle"]
    /\ docs = [r \in Req |-> <<>>]
    /\ last = [kind |-> "none", status |-> 0]

\* GET /
read_root ==
    /\ last' = [kind |-> "root", status |-> 200,
                message |-> "Flame & Wrap Co. backend running"]
    /\ UNCHANGED <<dbmod, store, store0, pc, docs>>

\* GET /api/hello
hello ==
    /\ last' = [kind |-> "hello", status |-> 200,
                message |-> "Hello from the backend API!"]
    /\ UNCHANGED <<dbmod, store, store0, pc, docs>>

\* GET /schema
get_schema ==
    /\ last' = [kind |-> "schema", status |-> 200,
                shapes |-> {"menuitem", "review", "order"}]
    /\ UNCHANGED <<dbmod, store, store0, pc, docs>>

TestResponse(database, connection, collections, url_set, name_set) ==
    [kind |-> "test", status |-> 200,
     backend |-> "Running",
     database |-> database,
     database_url |-> IF url_set THEN "Set" ELSE "Not Set",
     database_name |-> IF name_set THEN "Set" ELSE "Not Set",
     connection_status |-> connection,
     collections |-> collections]

\* test_database without the inner try around list_collection_names, whose
\* exception the outer handler then reports
test_database_flat(lcn, url_set, name_set) ==
    /\ last' =
         IF dbmod = "missing"
         THEN TestResponse("Database module not found (run enable-database first)",
                           "Not Connected", <<>>, url_set, name_set)
         ELSE IF dbmod = "broken"
         THEN TestResponse("Error: <str(e)[:50]>", "Not Connected", <<>>,
                           url_set, name_set)
         ELSE IF dbmod = "none"
         THEN TestResponse("Available but not initialized", "Not Connected", <<>>,
                           url_set, name_set)
         ELSE IF lcn = "raise"
         THEN TestResponse("Error: <str(e)[:50]>", "Connected", <<>>,
                           url_set, name_set)
         ELSE TestResponse("Connected & Working", "Connected",
                           SubSeq(list_collection_names, 1,
                                  IF Len(list_collection_names) < MaxCollections
                                  THEN Len(list_collection_names)
                                  ELSE MaxCollections),
                           url_set, name_set)
    /\ UNCHANGED <<dbmod, store, store0, pc, docs>>

\* GET /test; lcn: whether db.list_collection_names() returns or raises;
\* url_set, name_set: whether DATABASE_URL, DATABASE_NAME are set
test_database(lcn, url_set, name_set) ==
    /\ last' =
         IF dbmod = "missing"
         THEN TestResponse("Database module not found (run enable-database first)",
                           "Not Connected", <<>>, url_set, name_set)
         ELSE IF dbmod = "broken"
         THEN TestResponse("Error: <str(e)[:50]>", "Not Connected", <<>>,
                           url_set, name_set)
         ELSE IF dbmod = "none"
         THEN TestResponse("Available but not initialized", "Not Connected", <<>>,
                           url_set, name_set)
         ELSE IF lcn = "raise"
         THEN TestResponse("Connected but Error: <str(e)[:50]>", "Connected", <<>>,
                           url_set, name_set)
         ELSE TestResponse("Connected & Working", "Connected",
                           SubSeq(list_collection_names, 1,
                                  IF Len(list_collection_names) < MaxCollections
                                  THEN Len(list_collection_names)
                                  ELSE MaxCollections),
                           url_set, name_set)
    /\ UNCHANGED <<dbmod, store, store0, pc, docs>>

\* A response of GET /api/menu or GET /api/reviews. body is what the client
\* gets; src, why and read record how the handler came to it: which return
\* statement, what made it fall back, and what find returned.
ReadResponse(kind, body, src, why, read) ==
    [kind |-> kind, status |-> 200, body |-> body,
     src |-> src, why |-> why, read |-> read]

DbUnavailable == dbmod \in {"missing", "broken"}

\* drops the documents that fail validation instead of falling back
get_menu_validate_skip(ds) ==
    ReadResponse("menu", SeqMap(SelectSeq(ds, MenuItemValid), MenuItem),
                 "stored", "none", ds)

\* return [MenuItem(**doc) for doc in docs], inside try/except
get_menu_validate(ds) ==
    IF SeqAll(ds, MenuItemValid)
    THEN ReadResponse("menu", SeqMap(ds, MenuItem), "stored", "none", ds)
    ELSE ReadResponse("menu", DefaultMenu, "defaults", "validation_raised", ds)

\* seeds whatever find returned
get_menu_find_always_seed(r, out) ==
    /\ pc[r] = "idle"
    /\ IF DbUnavailable
       THEN /\ last' = ReadResponse("menu", DefaultMenu, "defaults", "import_raised", <<>>)
            /\ UNCHANGED <<pc, docs>>
       ELSE IF dbmod = "none"
       THEN /\ last' = ReadResponse("menu", DefaultMenu, "defaults", "db_none", <<>>)
            /\ UNCHANGED <<pc, docs>>
       ELSE IF out = "raise"
       THEN /\ last' = ReadResponse("menu", DefaultMenu, "defaults", "find_raised", <<>>)
            /\ UNCHANGED <<pc, docs>>
       ELSE /\ pc' = [pc EXCEPT ![r] = "menu_seed"]
            /\ docs' = [docs EXCEPT ![r] = find("menuitem")]
            /\ UNCHANGED last
    /\ UNCHANGED <<dbmod, store, store0>>

\* GET /api/menu up to and including the read: the import, the db check,
\* find, and for a non-empty read the validation and the return.
\* out: whether find returns or raises
get_menu_find(r, out) ==
    /\ pc[r] = "idle"
    /\ IF DbUnavailable
       THEN /\ last' = ReadResponse("menu", DefaultMenu, "defaults", "import_raised", <<>>)
            /\ UNCHANGED <<pc, docs>>
       ELSE IF dbmod = "none"
       THEN /\ last' = ReadResponse("menu", DefaultMenu, "defaults", "db_none", <<>>)
            /\ UNCHANGED <<pc, docs>>
       ELSE IF out = "raise"
       THEN /\ last' = ReadResponse("menu", DefaultMenu, "defaults", "find_raised", <<>>)
            /\ UNCHANGED <<pc, docs>>
       ELSE IF find("menuitem") = <<>>
       THEN /\ pc' = [pc EXCEPT ![r] = "menu_seed"]
            /\ docs' = [docs EXCEPT ![r] = find("menuitem")]
            /\ UNCHANGED last
       ELSE /\ last' = get_menu_validate(find("menuitem"))
            /\ UNCHANGED <<pc, docs>>
    /\ UNCHANGED <<dbmod, store, store0>>

\* insert_many outside the try: its exception reaches the framework
get_menu_insert_many_unguarded(r, out) ==
    /\ pc[r] = "menu_seed"
    /\ IF out = "raise"
       THEN /\ last' = [kind |-> "menu", status |-> 500, body |-> <<>>,
                        src |-> "error", why |-> "insert_raised", read |-> docs[r]]
            /\ UNCHANGED store
       ELSE /\ store' = insert_many("menuitem", SeqMap(DefaultMenu, MenuItem_model_dump))
            /\ last' = ReadResponse("menu", DefaultMenu, "defaults", "empty", docs[r])
    /\ pc' = [pc EXCEPT ![r] = "idle"]
    /\ docs' = [docs EXCEPT ![r] = <<>>]
    /\ UNCHANGED <<dbmod, store0>>

\* GET /api/menu after an empty read: insert_many of the dumped defaults and
\* the return.  out: whether insert_many returns or raises
get_menu_insert_many(r, out) ==
    /\ pc[r] = "menu_seed"
    /\ IF out = "raise"
       THEN /\ last' = ReadResponse("menu", DefaultMenu, "defaults", "insert_raised", docs[r])
            /\ UNCHANGED store
       ELSE /\ store' = insert_many("menuitem", SeqMap(DefaultMenu, MenuItem_model_dump))
            /\ last' = ReadResponse("menu", DefaultMenu, "defaults", "empty", docs[r])
    /\ pc' = [pc EXCEPT ![r] = "idle"]
    /\ docs' = [docs EXCEPT ![r] = <<>>]
    /\ UNCHANGED <<dbmod, store0>>

\* return [Review(**doc) for doc in docs], inside try/except
get_reviews_validate(ds) ==
    IF SeqAll(ds, ReviewValid)
    THEN ReadResponse("reviews", SeqMap(ds, Review), "stored", "none", ds)
    ELSE ReadResponse("reviews", DefaultReviews, "defaults", "validation_raised", ds)

\* GET /api/reviews up to and including the read
get_reviews_find(r, out) ==
    /\ pc[r] = "idle"
    /\ IF DbUnavailable
       THEN /\ last' = ReadResponse("reviews", DefaultReviews, "defaults", "import_raised", <<>>)
            /\ UNCHANGED <<pc, docs>>
       ELSE IF dbmod = "none"
       THEN /\ last' = ReadResponse("reviews", DefaultReviews, "defaults", "db_none", <<>>)
            /\ UNCHANGED <<pc, docs>>
       ELSE IF out = "raise"
       THEN /\ last' = ReadResponse("reviews", DefaultReviews, "defaults", "find_raised", <<>>)
            /\ UNCHANGED <<pc, docs>>
       ELSE IF find("review") = <<>>
       THEN /\ pc' = [pc EXCEPT ![r] = "review_seed"]
            /\ docs' = [docs EXCEPT ![r] = find("review")]
            /\ UNCHANGED last
       ELSE /\ last' = get_reviews_validate(find("review"))
            /\ UNCHANGED <<pc, docs>>
    /\ UNCHANGED <<dbmod, store, store0>>

\* inserts the review defaults into the menu's collection
get_reviews_insert_many_menuitem(r, out) ==
    /\ pc[r] = "review_seed"
    /\ IF out = "raise"
       THEN /\ last' = ReadResponse("reviews", DefaultReviews, "defaults", "insert_raised", docs[r])
            /\ UNCHANGED store
       ELSE /\ store' = insert_many("menuitem", SeqMap(DefaultReviews, Review_model_dump))
            /\ last' = ReadResponse("reviews", DefaultReviews, "defaults", "empty", docs[r])
    /\ pc' = [pc EXCEPT ![r] = "idle"]
    /\ docs' = [docs EXCEPT ![r] = <<>>]
    /\ UNCHANGED <<dbmod, store0>>

\* GET /api/reviews after an empty read: insert_many of the dumped defaults
\* and the return.  out: whether insert_many returns or raises
get_reviews_insert_many(r, out) ==
    /\ pc[r] = "review_seed"
    /\ IF out = "raise"
       THEN /\ last' = ReadResponse("reviews", DefaultReviews, "defaults", "insert_raised", docs[r])
            /\ UNCHANGED store
       ELSE /\ store' = insert_many("review", SeqMap(DefaultReviews, Review_model_dump))
            /\ last' = ReadResponse("reviews", DefaultReviews, "defaults", "empty", docs[r])
    /\ pc' = [pc EXCEPT ![r] = "idle"]
    /\ docs' = [docs EXCEPT ![r] = <<>>]
    /\ UNCHANGED <<dbmod, store0>>

CreateOutcome == {"raise", "str", "native"}

ConfirmMessage == "Order received. We'll start the grill!"
DemoMessage == "Order received (demo mode). We'll start the grill!"

\* response_model=OrderResponse applied to what the handler returned:
\* id: Optional[str], message: str
OrderResponse(ret) ==
    IF ret.id.type \in {"none", "str"}
    THEN [status |-> 200, id |-> ret.id, message |-> ret.message]
    ELSE [status |-> 500, id |-> NoId, message |-> NoneVal]

\* whether create_order's try block reaches its return
OrderPersists(out) == dbmod = "present" /\ out # "raise"

\* what create_order returns
create_order_return(out) ==
    IF OrderPersists(out)
    THEN [id |-> inserted_id("order", out), message |-> ConfirmMessage]
    ELSE [id |-> NoId, message |-> DemoMessage]

\* POST /api/orders.  out: create_document raises, or returns the new
\* identifier as a string or as the store's native identifier value
create_order(body, out) ==
    /\ (OrderValid(body) /\ OrderPersists(out)) => Len(store["order"]) < MaxOrders
    /\ IF ~OrderValid(body)
       THEN /\ last' = [kind |-> "order", status |-> 422, id |-> NoId,
                        message |-> NoneVal, req |-> body,
                        created |-> FALSE, generated |-> NoId]
            /\ UNCHANGED store
       ELSE /\ store' = IF OrderPersists(out)
                        THEN create_document("order", Order(body))
                        ELSE store
            /\ last' = [kind |-> "order",
                        status |-> OrderResponse(create_order_return(out)).status,
                        id |-> OrderResponse(create_order_return(out)).id,
                        message |-> OrderResponse(create_order_return(out)).message,
                        req |-> body,
                        created |-> OrderPersists(out),
                        generated |-> IF OrderPersists(out)
                                      THEN inserted_id("order", out) ELSE NoId]
    /\ UNCHANGED <<dbmod, store0, pc, docs>>

Next ==
    \/ read_root
    \/ hello
    \/ get_schema
    \/ \E lcn \in Outcome, url_set \in BOOLEAN, name_set \in BOOLEAN :
          test_database(lcn, url_set, name_set)
    \/ \E r \in Req, out \in Outcome : get_menu_find(r, out)
    \/ \E r \in Req, out \in Outcome : get_menu_insert_many(r, out)
    \/ \E r \in Req, out \in Outcome : get_reviews_find(r, out)
    \/ \E r \in Req, out \in Outcome : get_reviews_insert_many(r, out)
    \/ \E body \in OrderBodies, out \in CreateOutcome : create_order(body, out)

Spec == Init /\ [][Next]_vars

(***************************************************************************)
(* Sequential service over a working store that starts empty: a request    *)
(* is taken only when no other is in flight, and no collaborator call      *)
(* raises.                                                                 *)
(***************************************************************************)

SeqInit ==
    /\ dbmod = "present"
    /\ store = EmptyStore
    /\ store0 = store
    /\ pc = [r \in Req |-> "idle"]
    /\ docs = [r \in Req |-> <<>>]
    /\ last = [kind |-> "none", status |-> 0]

SeqNext ==
    \/ Idle /\ read_root
    \/ Idle /\ hello
    \/ Idle /\ get_schema
    \/ \E url_set \in BOOLEAN, name_set \in BOOLEAN :
          Idle /\ test_database("ok", url_set, name_set)
    \/ \E r \in Req : Idle /\ get_menu_find(r, "ok")
    \/ \E r \in Req : get_menu_insert_many(r, "ok")
    \/ \E r \in Req : Idle /\ get_reviews_find(r, "ok")
    \/ \E r \in Req : get_reviews_insert_many(r, "ok")
    \/ \E body \in OrderBodies : Idle /\ create_order(body, "str")

SeqSpec == SeqInit /\ [][SeqNext]_vars

(***************************************************************************)
(* Properties                                                              *)
(***************************************************************************)

SeededMenu == SeqMap(DefaultMenu, MenuItem_model_dump)
SeededReviews == SeqMap(DefaultReviews, Review_model_dump)

\* C1: every response of GET /api/menu and GET /api/reviews is an HTTP
\* success carrying a non-empty list, whatever the persistence state (module
\* missing, db None, find raising, empty collection, insert_many raising,
\* valid documents, a document that fails validation).
C1_ReadsReturnNonEmptyList ==
    last.kind \in {"menu", "reviews"} =>
        /\ last.status = 200
        /\ Len(last.body) >= 1

\* insert_many raised after an empty read and the client still got a list
C1_Witness ==
    /\ last.kind = "menu"
    /\ last.why = "insert_raised"
    /\ last.read = <<>>
    /\ Len(last.body) = 3

\* C2: with requests served one at a time over a working store that starts
\* empty, a collection is either still empty or holds exactly the three
\* seeded defaults, and every response to GET /api/menu (GET /api/reviews),
\* the seeding one and every later one, is the same three default records.
C2_SequentialSeedingIdempotent ==
    /\ store["menuitem"] \in {<<>>, SeededMenu}
    /\ store["review"] \in {<<>>, SeededReviews}
    /\ (last.kind = "menu" => last.body = DefaultMenu)
    /\ (last.kind = "reviews" => last.body = DefaultReviews)

\* a call after the seeding one read the three stored documents back
C2_Witness ==
    /\ last.kind = "reviews"
    /\ last.src = "stored"
    /\ last.read = SeededReviews
    /\ last.body = DefaultReviews
    /\ Len(store["review"]) = 3

\* C3: POST /api/orders with a body that passes Order validation ends in an
\* HTTP success response carrying a message, whatever the persistence state
\* and whatever identifier value create_document returned.
C3_ValidOrderAlwaysSucceeds ==
    (last.kind = "order" /\ last.status # 422) =>
        /\ last.status = 200
        /\ last.message \in {ConfirmMessage, DemoMessage}

\* C4: for a valid order the response carries the identifier create_document
\* generated and the confirmation message exactly when the insert succeeded,
\* and a null identifier with the demo-mode message exactly when importing
\* or calling create_document raised.
C4_IdentifierFollowsPersistence ==
    (last.kind = "order" /\ last.status # 422) =>
        /\ last.created <=>
              (last.status = 200 /\ last.id # NoId /\ last.id = last.generated
                 /\ last.message = ConfirmMessage)
        /\ ~last.created <=>
              (last.status = 200 /\ last.id = NoId /\ last.message = DemoMessage)

\* C5: every response of GET /test is a success whose backend field is the
\* running marker and whose database field is the descriptive string of the
\* persistence state: module missing, import error, db None, db present
\* (working, or list_collection_names raised).
C5_TestNeverPropagates ==
    last.kind = "test" =>
        /\ last.status = 200
        /\ last.backend = "Running"
        /\ (dbmod = "missing" =>
               last.database = "Database module not found (run enable-database first)")
        /\ (dbmod = "broken" => last.database = "Error: <str(e)[:50]>")
        /\ (dbmod = "none" => last.database = "Available but not initialized")
        /\ (dbmod = "present" =>
               \/ last.database = "Connected & Working"
                    /\ last.connection_status = "Connected"
               \/ last.database = "Connected but Error: <str(e)[:50]>"
                    /\ last.connection_status = "Connected"
                    /\ last.collections = <<>>)

\* list_collection_names raised and the probe reported it
C5_Witness ==
    /\ last.kind = "test"
    /\ last.status = 200
    /\ dbmod = "present"
    /\ last.database = "Connected but Error: <str(e)[:50]>"

\* C6: every item of a GET /api/menu response has price >= 0, rating in
\* [0,5] and ratings_count >= 0, every item of a GET /api/reviews response
\* has an integer rating in [1,5], and a response built from stored documents
\* was read from documents that all meet these constraints.
C6_ResponsesMeetFieldConstraints ==
    /\ last.kind = "menu" =>
          /\ \A i \in DOMAIN last.body :
                /\ last.body[i].price >= 0
                /\ last.body[i].rating >= 0 /\ last.body[i].rating <= 50
                /\ last.body[i].ratings_count \in Nat
          /\ last.src = "stored" =>
                \A i \in DOMAIN last.read :
                   /\ last.read[i].price >= 0
                   /\ Field(last.read[i], "rating", 48) \in 0..50
                   /\ Field(last.read[i], "ratings_count", 0) >= 0
    /\ last.kind = "reviews" =>
          /\ \A i \in DOMAIN last.body : last.body[i].rating \in 1..5
          /\ last.src = "stored" =>
                \A i \in DOMAIN last.read :
                   /\ last.read[i].rating % 10 = 0
                   /\ last.read[i].rating \div 10 \in 1..5

\* the store held a menu item with a negative price and the response is the
\* defaults
C6_Witness ==
    /\ last.kind = "menu"
    /\ last.why = "validation_raised"
    /\ \E i \in DOMAIN last.read : last.read[i].price < 0
    /\ last.body = DefaultMenu

\* C7: whenever no request is in flight, a collection that was empty at
\* start-up and has been seeded holds exactly one copy of the three default
\* records, for any interleaving of the requests' find and insert_many steps.
C7_ConcurrentSeedingOneCopy ==
    Idle =>
        /\ (store0["menuitem"] = <<>> /\ store["menuitem"] # <<>>) =>
              store["menuitem"] = SeededMenu
        /\ (store0["review"] = <<>> /\ store["review"] # <<>>) =>
              store["review"] = SeededReviews

\* C8: a GET /api/menu (GET /api/reviews) response is all-or-nothing. It is
\* either built from the complete sequence find returned, one item per
\* document in the same order, which happens only when the store is present,
\* the read was non-empty and every document validated; or it is exactly the
\* three defaults in their order, which happens only when the import raised,
\* db was None, find raised, the read was empty (insert_many returning or
\* raising) or a document failed validation.
C8_AllStoredOrAllDefaults ==
    /\ last.kind = "menu" =>
          \/ /\ last.src = "stored"
             /\ dbmod = "present"
             /\ last.read # <<>>
             /\ Len(last.body) = Len(last.read)
             /\ \A i \in DOMAIN last.read :
                   MenuItemValid(last.read[i]) /\ last.body[i] = MenuItem(last.read[i])
          \/ /\ last.src = "defaults"
             /\ last.body = DefaultMenu
             /\ \/ last.why = "import_raised" /\ DbUnavailable
                \/ last.why = "db_none" /\ dbmod = "none"
                \/ last.why = "find_raised" /\ dbmod = "present"
                \/ last.why \in {"empty", "insert_raised"} /\ last.read = <<>>
                \/ /\ last.why = "validation_raised"
                   /\ \E i \in DOMAIN last.read : ~MenuItemValid(last.read[i])
    /\ last.kind = "reviews" =>
          \/ /\ last.src = "stored"
             /\ dbmod = "present"
             /\ last.read # <<>>
             /\ Len(last.body) = Len(last.read)
             /\ \A i \in DOMAIN last.read :
                   ReviewValid(last.read[i]) /\ last.body[i] = Review(last.read[i])
          \/ /\ last.src = "defaults"
             /\ last.body = DefaultReviews
             /\ \/ last.why = "import_raised" /\ DbUnavailable
                \/ last.why = "db_none" /\ dbmod = "none"
                \/ last.why = "find_raised" /\ dbmod = "present"
                \/ last.why \in {"empty", "insert_raised"} /\ last.read = <<>>
                \/ /\ last.why = "validation_raised"
                   /\ \E i \in DOMAIN last.read : ~ReviewValid(last.read[i])

\* a store of one valid and one invalid menu item was answered with the
\* defaults, not with the valid item alone
C8_Witness ==
    /\ last.kind = "menu"
    /\ last.src = "defaults"
    /\ last.why = "validation_raised"
    /\ Len(last.read) = 2
    /\ \E i \in DOMAIN last.read : MenuItemValid(last.read[i])

\* C9: in every step each collection keeps the documents it had, in place
\* (the store only grows); "menuitem" changes only by a GET /api/menu whose
\* read returned empty, "review" only by a GET /api/reviews whose read
\* returned empty, "order" only by POST /api/orders, and then no other
\* collection changes; a step that answers GET /, /api/hello, /test or
\* /schema, or a read endpoint's fallback for a missing module, a None db or
\* a raising find, writes nothing.
C9_StoreOnlyGrowsPerCollection ==
    [][ /\ \A c \in Collections : IsPrefix(store[c], store'[c])
        /\ store'["menuitem"] # store["menuitem"] =>
              /\ \E r \in Req : /\ pc[r] = "menu_seed" /\ pc'[r] = "idle"
                                /\ docs[r] = <<>>
              /\ last'.kind = "menu" /\ last'.why = "empty"
              /\ store'["review"] = store["review"]
              /\ store'["order"] = store["order"]
        /\ store'["review"] # store["review"] =>
              /\ \E r \in Req : /\ pc[r] = "review_seed" /\ pc'[r] = "idle"
                                /\ docs[r] = <<>>
              /\ last'.kind = "reviews" /\ last'.why = "empty"
              /\ store'["menuitem"] = store["menuitem"]
              /\ store'["order"] = store["order"]
        /\ store'["order"] # store["order"] =>
              /\ last'.kind = "order"
              /\ pc' = pc
              /\ store'["menuitem"] = store["menuitem"]
              /\ store'["review"] = store["review"]
        /\ last'.kind \in {"root", "hello", "test", "schema"} => store' = store
        /\ (last'.kind \in {"menu", "reviews"}
              /\ last'.why \in {"import_raised", "db_none", "find_raised"}) =>
              store' = store
        /\ dbmod # "present" => store' = store
      ]_vars

\* both read endpoints have seeded and two orders are stored
C9_Witness ==
    /\ store["menuitem"] = SeededMenu
    /\ store["review"] = SeededReviews
    /\ Len(store["order"]) = 2
    /\ store0 = EmptyStore

\* C10: POST /api/orders has no duplicate detection and no cross-field
\* check: a body with the fields Order requires is never rejected, whether or
\* not total = subtotal + tax, and every request whose create_document call
\* returned appended exactly one document, the dump of the submitted order,
\* to "order", whatever the collection already held.
C10_EveryOrderStoredOnce ==
    [][ last'.kind = "order" =>
          /\ ({"items", "subtotal", "tax", "total"} \subseteq DOMAIN last'.req
                /\ \A i \in DOMAIN last'.req.items :
                      {"name", "price"} \subseteq DOMAIN last'.req.items[i])
               => last'.status # 422
          /\ (last'.created /\ last' # last) =>
                store'["order"] =
                   Append(store["order"], Order_model_dump(Order(last'.req)))
      ]_vars

\* the same order, whose total is not subtotal + tax, is stored twice
C10_Witness ==
    /\ Len(store["order"]) = 2
    /\ store["order"][1] = store["order"][2]
    /\ store["order"][1].total # store["order"][1].subtotal + store["order"][1].tax

====
